---- MODULE Spec2Model ----
(***************************************************************************)
(* CachedRowCursor (src/lib.rs): a cursor over a separator-delimited byte  *)
(* stream with a sparse row -> byte index.  The wrapped source `inner` is  *)
(* the tests' BufReader<Cursor<bytes>>: a read offset into a fixed byte    *)
(* string plus the reader's buffered remainder.  Every public operation    *)
(* is one action; the loops inside an operation are recursive operators    *)
(* over a record of the cursor's fields.                                   *)
(***************************************************************************)
EXTENDS Integers, Sequences, FiniteSets, TLC

\* ---------------------------------------------------------------- bounds
\* Longest stream modelled.
MaxLen == 2
\* Largest granularity the cursor is built with or switched to.
MaxGranularity == 2
\* Most steps of one run that go around the row-aware operations: calls of
\* the pass-through read, consume and read_until, and assignments to the
\* separator and granularity fields.
MaxOutside == 1
\* Longest buffer a caller hands to the pass-through read / read_until.
MaxBuf == 1
\* Every k-th call of the wrapped source may be the one that fails, k <= MaxFail.
MaxFail == 2
\* Width in bits of the model's u64 / i64 (the code's 64, scaled to fit TLC's
\* integers); arithmetic wraps or panics at 2^WordBits exactly as at 2^64.
WordBits == 8

Bytes == {0, 1}
None == -1

U64Modulus == 2 ^ WordBits
I64Modulus == 2 ^ (WordBits - 1)

Min(a, b) == IF a < b THEN a ELSE b
Max(a, b) == IF a > b THEN a ELSE b
SetMax(S) == CHOOSE x \in S : \A y \in S : y <= x
SetMin(S) == CHOOSE x \in S : \A y \in S : x <= y
BoundedSeq(S, n) == UNION {[1..k -> S] : k \in 0..n}

VARIABLES
    data,            \* the bytes of the wrapped source (never written)
    inner,           \* the wrapped source's read offset
    avail,           \* bytes the wrapped reader holds buffered ahead of inner
    pos,             \* self.pos
    row_pos,         \* self.row_pos
    length,          \* self.length, None or a number
    row_length,      \* self.row_length, None or a number
    separator,       \* self.separator
    granularity,     \* self.granularity
    cached_index,    \* self.cached_index, a function row -> byte
    overflow_checks, \* the build: TRUE panics on integer overflow, FALSE wraps
    outside,         \* pass-through calls and field assignments so far
    op,              \* the last operation called
    ret              \* how it ended: kind and returned value

vars == <<data, inner, avail, pos, row_pos, length, row_length, separator,
          granularity, cached_index, overflow_checks, outside, op, ret>>

DataLen == Len(data)

\* ------------------------------------------------------------ integers
\* `x as i64` of a u64.
AsI64(x) == IF x >= I64Modulus THEN x - U64Modulus ELSE x

\* The cursor while an operation runs.  calls counts the calls made to the
\* wrapped source; err is "none", "io" (the source failed) or "panic".
Cur == [inner |-> inner, avail |-> avail, pos |-> pos, row_pos |-> row_pos,
        length |-> length, row_length |-> row_length,
        cached_index |-> cached_index, calls |-> 0, err |-> "none"]

\* u64 `field += d` / `field -= d`: out of range panics under overflow checks
\* and wraps without them.
AddTo(c, field, d) ==
    LET v == c[field] + d IN
    IF v >= 0 /\ v < U64Modulus THEN [c EXCEPT ![field] = v]
    ELSE IF overflow_checks THEN [c EXCEPT !.err = "panic"]
    ELSE [c EXCEPT ![field] = v % U64Modulus]

\* ------------------------------------------------------ wrapped source
\* Whether the next call of the wrapped source is the one that fails.
Fails(c, f) == f = c.calls + 1

\* Bytes inner.read_until(byte) consumes from offset off: up to and
\* including the first `byte`, or to the end of the stream.
ReadUntilCount(off, byte) ==
    IF off >= DataLen THEN 0
    ELSE LET hits == {i \in (off + 1)..DataLen : data[i] = byte} IN
         IF hits = {} THEN DataLen - off ELSE SetMin(hits) - off

\* The bytes data[off+1 .. off+n].
Slice(off, n) == [i \in 1..n |-> data[off + i]]

\* inner.seek(SeekFrom::Current(d)): fails below zero, may pass the end;
\* the reader's buffer is dropped.
InnerSeek(c, d, f) ==
    IF Fails(c, f) \/ c.inner + d < 0
    THEN [c EXCEPT !.calls = @ + 1, !.err = "io"]
    ELSE [c EXCEPT !.calls = @ + 1, !.inner = @ + d, !.avail = 0]

\* inner.read_until(byte, buf), n bytes consumed; the reader refills first.
InnerReadUntil(c, byte, f) ==
    IF Fails(c, f) THEN [c EXCEPT !.calls = @ + 1, !.err = "io"]
    ELSE LET n == ReadUntilCount(c.inner, byte) IN
         [c EXCEPT !.calls = @ + 1, !.inner = @ + n,
                   !.avail = Max(DataLen - (c.inner + n), 0)]

\* --------------------------------------------------------------- read_row
\* CacheInsert without the contains_key test: a sample is overwritten.
CacheInsertOverwrites(c) ==
    IF c.row_pos % granularity = 0
    THEN [c EXCEPT !.cached_index =
              [k \in DOMAIN @ \cup {c.row_pos} |->
                   IF k = c.row_pos THEN c.pos ELSE @[k]]]
    ELSE c

\* CacheInsert that samples the row after each multiple of the granularity.
CacheInsertOffByOne(c) ==
    IF c.row_pos % granularity = 1 % granularity
       /\ c.row_pos \notin DOMAIN c.cached_index
    THEN [c EXCEPT !.cached_index =
              [k \in DOMAIN @ \cup {c.row_pos} |->
                   IF k = c.row_pos THEN c.pos ELSE @[k]]]
    ELSE c

\* The cache update of read_row.
CacheInsert(c) ==
    IF c.row_pos % granularity = 0 /\ c.row_pos \notin DOMAIN c.cached_index
    THEN [c EXCEPT !.cached_index =
              [k \in DOMAIN @ \cup {c.row_pos} |->
                   IF k = c.row_pos THEN c.pos ELSE @[k]]]
    ELSE c

\* RowRead that samples the cache before it counts the row.
RowReadSamplesBeforeCount(c, byte_len) ==
    IF byte_len # 0
    THEN LET c1 == AddTo(c, "pos", byte_len)
             c2 == IF c1.err = "none" THEN CacheInsert(c1) ELSE c1
         IN IF c2.err = "none" THEN AddTo(c2, "row_pos", 1) ELSE c2
    ELSE [c EXCEPT !.row_length = c.row_pos, !.length = c.pos]

\* The cursor's bookkeeping after read_until returned byte_len.
RowRead(c, byte_len) ==
    IF byte_len # 0
    THEN LET c1 == AddTo(c, "pos", byte_len)
             c2 == IF c1.err = "none" THEN AddTo(c1, "row_pos", 1) ELSE c1
         IN IF c2.err = "none" THEN CacheInsert(c2) ELSE c2
    ELSE [c EXCEPT !.row_length = c.row_pos, !.length = c.pos]

\* read_row: <<cursor after, byte_len>>.
ReadRow(c, f) ==
    LET c1 == InnerReadUntil(c, separator, f) IN
    IF c1.err # "none" THEN <<c1, 0>>
    ELSE <<RowRead(c1, c1.inner - c.inner), c1.inner - c.inner>>

\* ----------------------------------------------------------- set_position
\* .iter().take_while(|(_, byte)| byte < target).last().unwrap_or((0, 0))
PositionEntry(cache, target) ==
    LET taken == {k \in DOMAIN cache :
                     \A j \in DOMAIN cache : j <= k => cache[j] < target}
    IN IF taken = {} THEN <<0, 0>> ELSE <<SetMax(taken), cache[SetMax(taken)]>>

\* while self.pos < pos { byte_len = self.read_row()?; if byte_len == 0 { break } }
RECURSIVE ScanToByte(_, _, _)
ScanToByte(c, target, f) ==
    IF c.err # "none" \/ ~(c.pos < target) THEN c
    ELSE LET r == ReadRow(c, f) IN
         IF r[1].err # "none" \/ r[2] = 0 THEN r[1]
         ELSE ScanToByte(r[1], target, f)

\* Overshoot without the decrement of row_pos.
OvershootKeepsRow(c, target, f) ==
    IF c.err # "none" \/ ~(c.pos > target) THEN c
    ELSE LET c1 == InnerSeek(c, AsI64(target) - AsI64(c.pos), f) IN
         IF c1.err # "none" THEN c1 ELSE [c1 EXCEPT !.pos = target]

\* Overshoot that corrects the counters and leaves the source where it is.
OvershootKeepsSource(c, target, f) ==
    IF c.err # "none" \/ ~(c.pos > target) THEN c
    ELSE AddTo([c EXCEPT !.pos = target], "row_pos", -1)

\* if self.pos > pos { seek back; self.pos = pos; self.row_pos -= 1 }
Overshoot(c, target, f) ==
    IF c.err # "none" \/ ~(c.pos > target) THEN c
    ELSE LET c1 == InnerSeek(c, AsI64(target) - AsI64(c.pos), f) IN
         IF c1.err # "none" THEN c1
         ELSE AddTo([c1 EXCEPT !.pos = target], "row_pos", -1)

\* set_position up to its overshoot test: the jump to the cached sample and
\* the scan forward.
BeforeOvershoot(c, target, f) ==
    LET e  == PositionEntry(c.cached_index, target)
        c1 == InnerSeek(c, AsI64(e[2]) - AsI64(c.pos), f)
    IN IF c1.err # "none" THEN c1
       ELSE ScanToByte([c1 EXCEPT !.pos = c1.inner, !.row_pos = e[1]],
                       target, f)

SetPosition(c, target, f) ==
    Overshoot(BeforeOvershoot(c, target, f), target, f)

\* ------------------------------------------------------- set_row_position
\* .get_key_value(&(row / granularity)).unwrap_or_else(|| iter().last())
RowEntry(cache, row) ==
    LET key == row \div granularity IN
    IF key \in DOMAIN cache THEN <<key, cache[key]>>
    ELSE IF DOMAIN cache = {} THEN <<0, 0>>
    ELSE <<SetMax(DOMAIN cache), cache[SetMax(DOMAIN cache)]>>

\* while self.row_pos < row && self.read_row(&mut buf).unwrap() != 0 {}
RECURSIVE ScanToRow(_, _, _)
ScanToRow(c, row, f) ==
    IF c.err # "none" \/ ~(c.row_pos < row) THEN c
    ELSE LET r == ReadRow(c, f) IN
         IF r[1].err = "io" THEN [r[1] EXCEPT !.err = "panic"]
         ELSE IF r[1].err # "none" \/ r[2] = 0 THEN r[1]
         ELSE ScanToRow(r[1], row, f)

SetRowPosition(c, row, f) ==
    LET e  == RowEntry(c.cached_index, row)
        c1 == InnerSeek(c, AsI64(e[2]) - AsI64(c.pos), f)
    IN IF c1.err # "none" THEN c1
       ELSE ScanToRow([c1 EXCEPT !.row_pos = e[1], !.pos = e[2]], row, f)

\* ------------------------------------------------------- seek / seek_row
\* while self.length.is_none() { self.read_row(&mut buf)?; }   (seek)
\* while self.row_length.is_none() { self.read_row(&mut buf)?; } (seek_row)
RECURSIVE ScanToEnd(_, _, _)
ScanToEnd(c, total, f) ==
    IF c.err # "none" \/ c[total] # None THEN c
    ELSE ScanToEnd(ReadRow(c, f)[1], total, f)

\* The target of seek with End measured from the length, not the last byte.
SeekTargetFromLength(c, whence, n) ==
    CASE whence = "Start"   -> AsI64(n)
      [] whence = "Current" -> AsI64(c.pos) + n
      [] whence = "End"     -> AsI64(c.length) + n

\* The absolute target of seek(whence, n), an i64, after the scan End needs.
SeekTarget(c, whence, n) ==
    CASE whence = "Start"   -> AsI64(n)
      [] whence = "Current" -> AsI64(c.pos) + n
      [] whence = "End"     -> AsI64(c.length) - 1 + n

SeekRowTarget(c, whence, n) ==
    CASE whence = "Start"   -> AsI64(n)
      [] whence = "Current" -> AsI64(c.row_pos) + n
      [] whence = "End"     -> AsI64(c.row_length) - 1 + n

\* seek that scans for the total length whatever the whence.
SeekAlwaysScans(c, whence, n, f) ==
    LET c1 == ScanToEnd(c, "length", f) IN
    IF c1.err # "none" THEN c1
    ELSE IF SeekTarget(c1, whence, n) < 0 THEN [c1 EXCEPT !.err = "invalid"]
    ELSE SetPosition(c1, SeekTarget(c1, whence, n), f)

\* seek: the cursor after, with err "invalid" for a negative target.
Seek(c, whence, n, f) ==
    LET c1 == IF whence = "End" THEN ScanToEnd(c, "length", f) ELSE c IN
    IF c1.err # "none" THEN c1
    ELSE IF SeekTarget(c1, whence, n) < 0 THEN [c1 EXCEPT !.err = "invalid"]
    ELSE SetPosition(c1, SeekTarget(c1, whence, n), f)

SeekRow(c, whence, n, f) ==
    LET c1 == IF whence = "End" THEN ScanToEnd(c, "row_length", f) ELSE c IN
    IF c1.err # "none" THEN c1
    ELSE IF SeekRowTarget(c1, whence, n) < 0 THEN [c1 EXCEPT !.err = "invalid"]
    ELSE SetRowPosition(c1, SeekRowTarget(c1, whence, n), f)

\* ------------------------------------------------------------ pass-through
\* buf.iter().filter(|s| s == separator).count()
CountSeparators(buf) == Cardinality({i \in 1..Len(buf) : buf[i] = separator})

\* buf.iter().take_while(|s| s != byte)
TakeWhileNot(buf, byte) ==
    LET hits == {i \in 1..Len(buf) : buf[i] = byte} IN
    IF hits = {} THEN buf ELSE SubSeq(buf, 1, SetMin(hits) - 1)

\* What inner.read(buf) leaves in the caller's buffer: n bytes of the
\* stream over its start, the rest as the caller passed it.
Filled(c, buf) ==
    LET n == Min(Len(buf), Max(DataLen - c.inner, 0)) IN
    [i \in 1..Len(buf) |-> IF i <= n THEN data[c.inner + i] ELSE buf[i]]

\* Read::read: <<cursor after, n, the buffer after>>.
Read(c, buf, f) ==
    IF Fails(c, f) THEN <<[c EXCEPT !.calls = @ + 1, !.err = "io"], 0, buf>>
    ELSE LET n  == Min(Len(buf), Max(DataLen - c.inner, 0))
             c1 == [c EXCEPT !.calls = @ + 1, !.inner = @ + n,
                             !.avail = Max(DataLen - (c.inner + n), 0)]
             c2 == AddTo(c1, "pos", n)
             c3 == IF c2.err = "none"
                   THEN AddTo(c2, "row_pos", CountSeparators(Filled(c, buf)))
                   ELSE c2
         IN <<c3, n, Filled(c, buf)>>

\* BufRead::fill_buf: the reader buffers what is left of the stream.
FillBuf(c, f) ==
    IF Fails(c, f) THEN [c EXCEPT !.calls = @ + 1, !.err = "io"]
    ELSE [c EXCEPT !.calls = @ + 1, !.avail = Max(DataLen - c.inner, 0)]

\* BufRead::consume: the reader gives up at most what it holds.
Consume(c, amt) ==
    LET c1 == AddTo(c, "pos", amt) IN
    IF c1.err # "none" THEN c1
    ELSE [c1 EXCEPT !.inner = @ + Min(amt, c.avail),
                    !.avail = @ - Min(amt, c.avail)]

\* The row_pos increment of BufRead::read_until over the buffer after the call.
ReadUntilRows(byte, buf) ==
    IF byte # separator THEN CountSeparators(TakeWhileNot(buf, byte)) ELSE 1

\* BufRead::read_until: <<cursor after, n, the buffer after>>; the source's
\* failure is kept as the result and row_pos is bumped all the same.
ReadUntil(c, byte, buf, f) ==
    LET c1  == InnerReadUntil(c, byte, f)
        n   == c1.inner - c.inner
        out == buf \o Slice(c.inner, n)
        c2  == AddTo([c1 EXCEPT !.err = "none"], "row_pos",
                     ReadUntilRows(byte, out))
    IN <<IF c2.err = "none" THEN [c2 EXCEPT !.err = c1.err] ELSE c2, n, out>>

\* ----------------------------------------------------------------- actions
\* Byte and row targets: every place of the stream and one past its end.
Targets == 0..(DataLen + 1)
\* Relative offsets: back past the start, forward past the end.
Offsets == (0 - (DataLen + 1))..2
Whences == {"Start", "Current", "End"}
\* The offsets of a seek: a u64 for Start (one of them above i64::MAX), an
\* i64 for Current and End.
SeekOffsets(whence) ==
    IF whence = "Start" THEN Targets \cup {I64Modulus} ELSE Offsets
Buffers == BoundedSeq(Bytes, MaxBuf)
\* No call of the wrapped source fails / the k-th may, k <= MaxFail.
Reliable == {0}
Failing == 0..MaxFail

Alive == ret.kind # "panic"

Kind(c) == IF c.err = "none" THEN "ok"
           ELSE IF c.err = "io" THEN "io_error"
           ELSE IF c.err = "invalid" THEN "invalid_seek"
           ELSE "panic"

\* The cursor's fields take the values the operation left in c.
Store(c, name, val) ==
    /\ inner' = c.inner
    /\ avail' = c.avail
    /\ pos' = c.pos
    /\ row_pos' = c.row_pos
    /\ length' = c.length
    /\ row_length' = c.row_length
    /\ cached_index' = c.cached_index
    /\ op' = name
    /\ ret' = [kind |-> Kind(c), val |-> IF c.err = "none" THEN val ELSE 0]
    /\ UNCHANGED <<data, separator, granularity, overflow_checks>>

\* CachedRowCursor::new(reader, separator, granularity) over a stream of at
\* most n bytes, in one of the given builds.  The two byte values are
\* interchangeable, so the separator is built as 0.
New(n, builds) ==
    /\ data \in BoundedSeq(Bytes, n)
    /\ inner = 0
    /\ avail = 0
    /\ pos = 0
    /\ row_pos = 0
    /\ length = None
    /\ row_length = None
    /\ separator = 0
    /\ granularity \in 1..MaxGranularity
    /\ cached_index = (0 :> 0)
    /\ overflow_checks \in builds
    /\ outside = 0
    /\ op = "new"
    /\ ret = [kind |-> "ok", val |-> 0]

Init == New(MaxLen, BOOLEAN)
\* Without the pass-through reads no arithmetic leaves its range (NoPanic
\* below), so the build that would panic stands for both; the row-aware
\* operations alone afford streams two bytes longer.
InitConfig == New(MaxLen, {TRUE})
InitRows == New(MaxLen + 2, {TRUE})
\* Whether a failure of the source is returned does not depend on how long
\* the stream is; the failing source is modelled over streams one byte shorter.
InitIO == New(MaxLen - 1, BOOLEAN)

SetPositionOp(F) ==
    \E target \in Targets, f \in F :
        /\ Alive
        /\ \E c \in {SetPosition(Cur, target, f)} :
               Store(c, "set_position", c.pos)
        /\ UNCHANGED outside

SetRowPositionOp(F) ==
    \E row \in Targets, f \in F :
        /\ Alive
        /\ \E c \in {SetRowPosition(Cur, row, f)} :
               Store(c, "set_row_position", c.row_pos)
        /\ UNCHANGED outside

ReadRowOp(F) ==
    \E f \in F :
        /\ Alive
        /\ \E r \in {ReadRow(Cur, f)} :
               Store(r[1], "read_row", r[2])
        /\ UNCHANGED outside

SeekOp(F) ==
    \E whence \in Whences, f \in F :
        \E n \in SeekOffsets(whence) :
            /\ Alive
            /\ \E c \in {Seek(Cur, whence, n, f)} :
               Store(c, "seek", c.pos)
            /\ UNCHANGED outside

SeekRowOp(F) ==
    \E whence \in Whences, f \in F :
        \E n \in SeekOffsets(whence) :
            /\ Alive
            /\ \E c \in {SeekRow(Cur, whence, n, f)} :
               Store(c, "seek_row", c.row_pos)
            /\ UNCHANGED outside

ReadOp(F) ==
    \E buf \in Buffers, f \in F :
        /\ Alive
        /\ outside < MaxOutside
        /\ \E r \in {Read(Cur, buf, f)} :
               Store(r[1], "read", r[2])
        /\ outside' = outside + 1

FillBufOp(F) ==
    \E f \in F :
        /\ Alive
        /\ \E c \in {FillBuf(Cur, f)} :
               Store(c, "fill_buf", c.avail)
        /\ UNCHANGED outside

ConsumeOp ==
    \E amt \in 1..DataLen :
        /\ Alive
        /\ outside < MaxOutside
        /\ amt <= avail
        /\ \E c \in {Consume(Cur, amt)} : Store(c, "consume", 0)
        /\ outside' = outside + 1

ReadUntilOp(F) ==
    \E byte \in Bytes, buf \in Buffers, f \in F :
        /\ Alive
        /\ outside < MaxOutside
        /\ \E r \in {ReadUntil(Cur, byte, buf, f)} :
               Store(r[1], "read_until", r[2])
        /\ outside' = outside + 1

\* cursor.separator = b (tests::separator)
SetSeparator ==
    \E b \in Bytes :
        /\ Alive
        /\ outside < MaxOutside
        /\ b # separator
        /\ separator' = b
        /\ outside' = outside + 1
        /\ op' = "separator"
        /\ ret' = [kind |-> "ok", val |-> 0]
        /\ UNCHANGED <<data, inner, avail, pos, row_pos, length, row_length,
                       granularity, cached_index, overflow_checks>>

\* cursor.granularity = g (tests::granularity)
SetGranularity ==
    \E g \in 1..MaxGranularity :
        /\ Alive
        /\ outside < MaxOutside
        /\ g # granularity
        /\ granularity' = g
        /\ outside' = outside + 1
        /\ op' = "granularity"
        /\ ret' = [kind |-> "ok", val |-> 0]
        /\ UNCHANGED <<data, inner, avail, pos, row_pos, length, row_length,
                       separator, cached_index, overflow_checks>>

\* The row-aware operations over a source that never fails.
NextRows ==
    \/ SetPositionOp(Reliable)
    \/ SetRowPositionOp(Reliable)
    \/ ReadRowOp(Reliable)
    \/ SeekOp(Reliable)
    \/ SeekRowOp(Reliable)

SpecRows == InitRows /\ [][NextRows]_vars

\* ... with the separator and the granularity reassigned between them.
NextConfig ==
    \/ SetPositionOp(Reliable)
    \/ SetRowPositionOp(Reliable)
    \/ ReadRowOp(Reliable)
    \/ SeekOp(Reliable)
    \/ SeekRowOp(Reliable)
    \/ SetSeparator
    \/ SetGranularity

SpecConfig == InitConfig /\ [][NextConfig]_vars

\* The row-aware operations with the pass-through reads between them.
NextPass ==
    \/ SetPositionOp(Reliable)
    \/ SetRowPositionOp(Reliable)
    \/ ReadRowOp(Reliable)
    \/ SeekOp(Reliable)
    \/ SeekRowOp(Reliable)
    \/ ReadOp(Reliable)
    \/ FillBufOp(Reliable)
    \/ ConsumeOp
    \/ ReadUntilOp(Reliable)

SpecPass == Init /\ [][NextPass]_vars

\* Every operation, over a source that never fails.
Next ==
    \/ SetPositionOp(Reliable)
    \/ SetRowPositionOp(Reliable)
    \/ ReadRowOp(Reliable)
    \/ SeekOp(Reliable)
    \/ SeekRowOp(Reliable)
    \/ ReadOp(Reliable)
    \/ FillBufOp(Reliable)
    \/ ConsumeOp
    \/ ReadUntilOp(Reliable)
    \/ SetSeparator
    \/ SetGranularity

Spec == Init /\ [][Next]_vars

\* The operations that call the wrapped source, over one whose calls may fail.
NextIO ==
    \/ SetPositionOp(Failing)
    \/ SetRowPositionOp(Failing)
    \/ ReadRowOp(Failing)
    \/ SeekOp(Failing)
    \/ SeekRowOp(Failing)
    \/ ReadOp(Failing)
    \/ FillBufOp(Failing)
    \/ ReadUntilOp(Failing)

SpecIO == InitIO /\ [][NextIO]_vars

\* No operation has panicked.
NoPanic == ret.kind # "panic"

\* ------------------------------------------------------- the stream's rows
\* Separator bytes among the first off bytes of the stream.
SeparatorsBefore(off) ==
    Cardinality({i \in 1..Min(off, DataLen) : data[i] = separator})

\* Whether the stream ends in a run that no separator closes.
Unterminated == DataLen > 0 /\ data[DataLen] # separator

\* Rows that end at or before offset off: every separator-closed row there
\* and, once off covers the whole stream, its unterminated last run.
RowsBefore(off) ==
    SeparatorsBefore(off) + (IF off >= DataLen /\ Unterminated THEN 1 ELSE 0)

\* Rows of the whole stream.
TotalRows == RowsBefore(DataLen)

\* The offset just after the k-th row, 0 <= k <= TotalRows.
RowEnd(k) == SetMin({off \in 0..DataLen : RowsBefore(off) = k})

\* ------------------------------------------------------------------ claims
\* C1 (as claimed): from every state, whatever operations led to it,
\* set_position(p) returns min(p, stream length) and leaves position() there.
C1_SetPositionClamps ==
    Alive =>
        \A p \in Targets :
            LET c == SetPosition(Cur, p, 0) IN
            c.err = "none" /\ c.pos = Min(p, DataLen)

C3_SetRowPositionClamps ==
    \A r \in Targets :
        LET c == SetRowPosition(Cur, r, 0) IN
        /\ c.err = "none"
        /\ c.row_pos = Min(r, TotalRows)
        /\ c.pos = RowEnd(Min(r, TotalRows))

\* Calls of the wrapped source that a scan from here to end-of-stream makes:
\* one read per row left and the read that finds the end.
ScanCalls == TotalRows - row_pos + 1

\* What C4 asks of one seek that ended c: an invalid seek made no call.
NoCallWhenInvalid(c) == c.err = "invalid" => c.calls = 0

\* C4 (as claimed): a seek or seek_row to a negative target fails without
\* any call of the wrapped source, for every whence.
C4_InvalidSeekNoIo ==
    \A whence \in Whences :
        \A n \in SeekOffsets(whence) :
            /\ NoCallWhenInvalid(Seek(Cur, whence, n, 0))
            /\ NoCallWhenInvalid(SeekRow(Cur, whence, n, 0))

\* What the amended C4 asks of one seek: a negative target (known is the
\* total the whence is relative to, None while undiscovered; base the value
\* the offset is added to) gives the invalid-seek error, with no call of the
\* source unless End had to scan for the total, and then with the scan's
\* reads only.
InvalidSeekContract(c, whence, n, known, base) ==
    /\ base + n < 0 => c.err = "invalid"
    /\ c.err = "invalid" =>
          /\ base + n < 0
          /\ c.calls = IF whence = "End" /\ known = None THEN ScanCalls ELSE 0

\* C4 (amended): a negative target always gives the invalid-seek error;
\* Start, Current, and End with the total known reach it without any call of
\* the source, End with the total unknown after its scan to end-of-stream.
C4_InvalidSeekAfterScanOnly ==
    \A whence \in Whences :
        \A n \in SeekOffsets(whence) :
            /\ InvalidSeekContract(Seek(Cur, whence, n, 0), whence, n, length,
                   CASE whence = "Start" -> AsI64(n) - n
                     [] whence = "Current" -> pos
                     [] whence = "End" -> DataLen - 1)
            /\ InvalidSeekContract(SeekRow(Cur, whence, n, 0), whence, n,
                   row_length,
                   CASE whence = "Start" -> AsI64(n) - n
                     [] whence = "Current" -> row_pos
                     [] whence = "End" -> TotalRows - 1)

\* C4 witness: an End seek on a cursor that had not met end-of-stream was
\* refused; it has left the cursor at the end with the totals discovered.
C4_Witness ==
    /\ op \in {"seek", "seek_row"} /\ ret.kind = "invalid_seek"
    /\ length = DataLen /\ pos = DataLen /\ DataLen > 0
    /\ Cardinality(DOMAIN cached_index) = 1

\* What C5 asks of one operation that ended c when the f-th call of the
\* wrapped source was the failing one: if the operation got as far as that
\* call, it returned the failure.
FailureReturned(c, f) == c.calls >= f => c.err = "io"

\* C5 (as claimed): a failure of the wrapped source during any operation
\* that calls it comes back as that operation's error; none panics on it.
C5_IoFailureIsReturned ==
    Alive =>
        \A f \in 1..MaxFail :
            /\ FailureReturned(ReadRow(Cur, f)[1], f)
            /\ \A p \in Targets :
                   /\ FailureReturned(SetPosition(Cur, p, f), f)
                   /\ FailureReturned(SetRowPosition(Cur, p, f), f)
            /\ \A whence \in Whences :
                   \A n \in SeekOffsets(whence) :
                       /\ FailureReturned(Seek(Cur, whence, n, f), f)
                       /\ FailureReturned(SeekRow(Cur, whence, n, f), f)
            /\ FailureReturned(FillBuf(Cur, f), f)
            /\ \A buf \in Buffers :
                   /\ FailureReturned(Read(Cur, buf, f)[1], f)
                   /\ \A byte \in Bytes :
                          FailureReturned(ReadUntil(Cur, byte, buf, f)[1], f)

\* The operations C6 lists.
PublicOps == {"read_row", "set_position", "set_row_position", "seek",
              "seek_row", "read", "fill_buf", "consume", "read_until"}

\* C6 (as claimed): after every completed operation pos is the wrapped
\* source's read offset and row_pos the number of rows before it.
C6_CountersMatchSource ==
    (op \in PublicOps /\ ret.kind = "ok") =>
        pos = inner /\ row_pos = RowsBefore(inner)

\* C7: an entry of the cache, once present, stays and keeps its byte offset.
C7_CacheOnlyGrows ==
    [][\A k \in DOMAIN cached_index :
           k \in DOMAIN cached_index' /\ cached_index'[k] = cached_index[k]]_vars

\* C7 witness: a row was read whose end differs from the sample the cache
\* already holds for its row number, and the sample is still there.
C7_Witness ==
    /\ op = "read_row" /\ ret.kind = "ok" /\ ret.val > 0
    /\ row_pos > 0 /\ row_pos % granularity = 0
    /\ row_pos \in DOMAIN cached_index /\ cached_index[row_pos] # pos
    /\ cached_index[0] = 0

\* C8 (as claimed): every cache entry (k, b) has b just after the k-th row.
C8_CacheEntriesAreRowEnds ==
    \A k \in DOMAIN cached_index :
        k <= TotalRows /\ cached_index[k] = RowEnd(k)

C10_KeysMultipleOfGranularity ==
    \A k \in DOMAIN cached_index : k % granularity = 0

\* C10 (amended): every key that enters the cache is a positive multiple of
\* the granularity in force when it enters; keys are never re-keyed when the
\* granularity is reassigned.
C10_KeysMultipleWhenInserted ==
    [][\A k \in DOMAIN cached_index' \ DOMAIN cached_index :
           k > 0 /\ k % granularity = 0 /\ granularity' = granularity]_vars

\* C10 witness: the cache holds a key sampled under granularity 1 that the
\* granularity now in force does not divide, and a key sampled since.
C10_Witness ==
    /\ granularity = 2
    /\ 1 \in DOMAIN cached_index /\ 2 \in DOMAIN cached_index
    /\ op = "read_row" /\ row_pos = 2 /\ outside = 1
    /\ cached_index[2] = pos /\ cached_index[1] < pos

C12_SeekRowEndFromLastRow ==
    \A n \in Offsets :
        LET c == SeekRow(Cur, "End", n, 0)
            r == Min(TotalRows - 1 + n, TotalRows)
        IN /\ c.row_length = TotalRows
           /\ TotalRows - 1 + n >= 0 =>
                  c.err = "none" /\ c.row_pos = r /\ c.pos = RowEnd(r)

\* Offsets strictly inside a row: a row starts before them and ends after.
InsideRow == {p \in 1..(DataLen - 1) : data[p] # separator}

\* What C13 asks of read_row from the cursor c that a byte seek to p left:
\* the read starts at p, takes the bytes up to and including the row's
\* separator (or the end of an unterminated last row), and leaves the
\* counters at the end of that row.
RestOfRowRead(c, p) ==
    LET r == ReadRow(c, 0) IN
    /\ c.err = "none" /\ c.inner = p
    /\ r[1].err = "none"
    /\ r[2] = ReadUntilCount(p, separator)
    /\ r[1].inner = p + r[2]
    /\ r[1].pos = RowEnd(SeparatorsBefore(p) + 1)
    /\ r[1].pos = p + r[2]
    /\ r[1].row_pos = SeparatorsBefore(p) + 1

\* C13: after a byte seek (set_position or seek from Start) to an offset
\* strictly inside a row, read_row returns the rest of that row and leaves
\* position() at its end and row_position() at the rows before it plus one.
C13_ReadRowAfterSeekInsideRow ==
    \A p \in InsideRow :
        /\ RestOfRowRead(SetPosition(Cur, p, 0), p)
        /\ RestOfRowRead(Seek(Cur, "Start", p, 0), p)

\* C13 witness: read_row has returned fewer bytes than the row it finished
\* holds, having started strictly inside it.
C13_Witness ==
    /\ op = "read_row" /\ ret.kind = "ok" /\ ret.val > 0
    /\ pos - ret.val \in InsideRow
    /\ inner = pos /\ pos = RowEnd(row_pos) /\ row_pos = RowsBefore(pos)

\* C14: with the granularity fixed from construction, once the cursor has
\* scanned the stream to end-of-stream the cache keys are exactly the
\* multiples of the granularity from 0 up to the number of rows, each mapped
\* to the byte offset just after that many rows.
C14_CacheKeysAfterFullScan ==
    length # None =>
        /\ DOMAIN cached_index = {k \in 0..TotalRows : k % granularity = 0}
        /\ \A k \in DOMAIN cached_index : cached_index[k] = RowEnd(k)

\* C14 witness: a three-row stream was scanned to its end under granularity
\* 2; the cache holds keys 0 and 2 and row 3 was not sampled.
C14_Witness ==
    /\ length = DataLen /\ row_length = 3 /\ TotalRows = 3
    /\ granularity = 2
    /\ DOMAIN cached_index = {0, 2}
    /\ cached_index[2] = RowEnd(2) /\ RowEnd(2) > 2

\* C15 (as claimed): a pass-through read that fills n bytes of the caller's
\* buffer adds n to pos and to row_pos the separator bytes among those n
\* bytes only, whatever the rest of the buffer held.
C15_ReadCountsFilledBytesOnly ==
    Alive =>
        \A buf \in Buffers :
            LET r == Read(Cur, buf, 0) IN
            /\ r[1].err = "none"
            /\ r[1].pos = pos + r[2]
            /\ r[1].row_pos = row_pos + CountSeparators(SubSeq(r[3], 1, r[2]))

\* C16 (as claimed): a pass-through read_until for the separator byte moves
\* pos and row_pos as one read_row from the same state does, and returns
\* the same count; at end-of-stream neither counter moves.
C16_ReadUntilSeparatorIsReadRow ==
    Alive =>
        \A buf \in Buffers :
            LET u == ReadUntil(Cur, separator, buf, 0)
                r == ReadRow(Cur, 0)
            IN /\ u[2] = r[2]
               /\ u[1].inner = r[1].inner
               /\ u[1].pos = r[1].pos
               /\ u[1].row_pos = r[1].row_pos

\* C17 (as claimed): seek(Start(n)) for every u64 n beyond the end of the
\* stream, those at and above 2^63 included, succeeds and returns the
\* end-of-stream offset.
C17_SeekStartBeyondEndClamps ==
    \A n \in SeekOffsets("Start") :
        n > DataLen =>
            LET c == Seek(Cur, "Start", n, 0) IN
            c.err = "none" /\ c.pos = DataLen

\* C18 (as claimed): the cache entry set_row_position(r) starts its scan
\* from is the one with the greatest key that is <= r.
C18_LookupIsTightestLowerBound ==
    \A r \in Targets :
        RowEntry(cached_index, r)[1] =
            SetMax({k \in DOMAIN cached_index : k <= r})

\* The reference cursor of C19 keeps no samples: its lookups find the seed
\* (0, 0) alone, so every seek rescans from byte 0.
NoSamples(c) == [c EXCEPT !.cached_index = (0 :> 0)]

RefSetPosition(c, p) == SetPosition(NoSamples(c), p, 0)

RefSetRowPosition(c, r) == SetRowPosition(NoSamples(c), r, 0)

RefSeek(c, whence, n) ==
    LET c1 == IF whence = "End" THEN ScanToEnd(c, "length", 0) ELSE c IN
    IF c1.err # "none" THEN c1
    ELSE IF SeekTarget(c1, whence, n) < 0 THEN [c1 EXCEPT !.err = "invalid"]
    ELSE RefSetPosition(c1, SeekTarget(c1, whence, n))

RefSeekRow(c, whence, n) ==
    LET c1 == IF whence = "End" THEN ScanToEnd(c, "row_length", 0) ELSE c IN
    IF c1.err # "none" THEN c1
    ELSE IF SeekRowTarget(c1, whence, n) < 0 THEN [c1 EXCEPT !.err = "invalid"]
    ELSE RefSetRowPosition(c1, SeekRowTarget(c1, whence, n))

\* The two cursors ended the operation alike: same result, same counters,
\* same totals, the source at the same offset.
SameOutcome(a, b) ==
    /\ a.err = b.err
    /\ a.pos = b.pos /\ a.row_pos = b.row_pos /\ a.inner = b.inner
    /\ a.length = b.length /\ a.row_length = b.row_length

\* C19 (as claimed): every row-aware operation, from every state reached by
\* row-aware operations with separator and granularity fixed, ends as it
\* does on the reference cursor in the same position: same result, same
\* byte_pos and row_pos.  (read_row consults no sample.)
C19_CacheIsTransparent ==
    \A p \in Targets :
        /\ SameOutcome(SetPosition(Cur, p, 0), RefSetPosition(Cur, p))
        /\ SameOutcome(SetRowPosition(Cur, p, 0), RefSetRowPosition(Cur, p))
        /\ \A whence \in Whences :
               \A n \in SeekOffsets(whence) :
                   /\ SameOutcome(Seek(Cur, whence, n, 0),
                                  RefSeek(Cur, whence, n))
                   /\ SameOutcome(SeekRow(Cur, whence, n, 0),
                                  RefSeekRow(Cur, whence, n))

\* C20 (as claimed): in every state the public interface reaches, the
\* pass-through calls included, whenever set_position finds byte_pos beyond
\* its target after the scan, row_pos is at least 1 before the decrement,
\* and set_position does not panic.
C20_OvershootNeverUnderflows ==
    Alive =>
        \A p \in Targets :
            LET b == BeforeOvershoot(Cur, p, 0) IN
            /\ (b.err = "none" /\ b.pos > p) => b.row_pos >= 1
            /\ SetPosition(Cur, p, 0).err # "panic"

====
